---- MODULE Spec2Model ----
(***************************************************************************)
(* A model of f3dasm's experiment ledger (ExperimentData): the input and   *)
(* output record stores, the per-row job status, the claim / commit / fail *)
(* operations, and the three run policies (sequential, parallel, cluster). *)
(*                                                                         *)
(* Rows are numbered from 1 here; row i of the model is the row with index *)
(* (job number) i - 1 of the Python code.                                  *)
(***************************************************************************)
EXTENDS Integers, Sequences, FiniteSets, TLC

\* ------------------------------------------------------------- bounds
\* Largest number of rows of the in-memory ledger.
MaxRows == 2
\* Number of cluster driver processes sharing one persisted ledger.
NDrivers == 3
\* Largest number of rows of the ledger the cluster drivers share.
ClusterRows == 2
\* Largest number of rows of a ledger given to a union / add_experiments.
MaxOther == 2
\* The most rows of a union in SpecUnion.
MaxUnion == 4
\* The largest iteration count and population the two counting functions are
\* called with in SpecCount.
MaxCountIterations == 10
MaxCountPopulation == 3
\* The largest iteration count and population of an iteration in SpecIterate.
MaxIterations == 4
MaxPopulation == 3
\* The largest ledger an iteration starts from.
MaxStartRows == 3

\* ------------------------------------------------------------- values
OPEN == "open"
IN_PROGRESS == "in progress"
FINISHED == "finished"
ERROR == "error"
Status == {OPEN, IN_PROGRESS, FINISHED, ERROR}

\* An output cell: unset (NaN), the error sentinel, or a value.
NaN == <<"NaN">>
ErrorSentinel == <<"ERROR">>
Val(v) == <<"value", v>>

\* Input and output values: two are enough to tell rows apart.
Vals == {1, 2}
Domains == {"D1", "D2"}

NoException == "none"
NoOpenJobsError == "NoOpenJobsError"
ValueError == "ValueError"
FileNotFoundError == "FileNotFoundError"
TypeError == "TypeError"
KeyError == "KeyError"

SeqsUpTo(S, n) == UNION {[1..k -> S] : k \in 0..n}

\* An optional array argument (output=None or a 2D array with one row per
\* input row).
NoOutput == [given |-> FALSE, rows |-> <<>>]
Given(rows) == [given |-> TRUE, rows |-> rows]

\* ------------------------------------------------------------- _Data
\* The record store: one cell per row.
Data_from_indices(n) == [i \in 1..n |-> NaN]

Data_add(d, rows) == d \o rows

add_empty_rows(d, n) == d \o [i \in 1..n |-> NaN]

\* Rows at the given indices dropped, the rest reindexed contiguously.
Data_remove(d, indices) ==
    LET keep == {i \in 1..Len(d) : i \notin indices}
    IN  [k \in 1..Cardinality(keep) |->
            d[CHOOSE i \in keep : Cardinality({j \in keep : j <= i}) = k]]

set_data(d, index, value) == [d EXCEPT ![index] = value]

get_data_dict(d, index) == d[index]

\* Indices of the rows whose output is unset.
NaNIndices(d) == {i \in 1..Len(d) : d[i] = NaN}

\* Fill the unset rows, in index order, with the rows of the array; returns
\* the store and the filled indices.
fill_numpy_arrays(d, array) ==
    LET idx == NaNIndices(d)
        rank(i) == Cardinality({j \in idx : j <= i})
    IN  [data |-> [i \in 1..Len(d) |->
                      IF i \in idx /\ rank(i) <= Len(array)
                      THEN Val(array[rank(i)]) ELSE d[i]],
         idx  |-> {i \in idx : rank(i) <= Len(array)}]

\* ------------------------------------------------------------- _JobQueue
JobQueue_from_data(data, value) == [i \in 1..Len(data) |-> value]

JobQueue_add(jobs, number_of_jobs, status) ==
    jobs \o [i \in 1..number_of_jobs |-> status]

JobQueue_remove(jobs, indices) == Data_remove(jobs, indices)

OpenJobs(jobs) == {i \in 1..Len(jobs) : jobs[i] = OPEN}

\* The lowest-index OPEN row; 0 stands for raising NoOpenJobsError.
get_open_job(jobs) ==
    IF OpenJobs(jobs) = {} THEN 0
    ELSE CHOOSE i \in OpenJobs(jobs) : \A j \in OpenJobs(jobs) : i <= j

mark(jobs, index, status) == [jobs EXCEPT ![index] = status]

mark_as_in_progress(jobs, index) == mark(jobs, index, IN_PROGRESS)

mark_as_error(jobs, index) == mark(jobs, index, ERROR)

\* index: one index or an iterable of indices, here a set.
mark_as_finished(jobs, indices) ==
    [i \in 1..Len(jobs) |-> IF i \in indices THEN FINISHED ELSE jobs[i]]

JobQueue_mark_all_open(jobs) == [i \in 1..Len(jobs) |-> OPEN]

\* As JobQueue_is_all_finished, with ERROR rows counted as not settled.
JobQueue_is_all_finished_error_unsettled(jobs) ==
    \A i \in 1..Len(jobs) : jobs[i] = FINISHED

JobQueue_is_all_finished(jobs) ==
    \A i \in 1..Len(jobs) : jobs[i] \in {FINISHED, ERROR}

\* ------------------------------------------------------------- ExperimentData
\* The aggregate: an input store, an output store, a job queue and a domain.
Ledger(inp, out, jobs, domain) ==
    [input_data |-> inp, output_data |-> out, jobs |-> jobs, domain |-> domain]

\* As ExperimentData.__init__, but with every job OPEN whatever was supplied.
ExperimentData_init_always_open(domain, input, output) ==
    IF Len(output.rows) = 0
    THEN Ledger(input, Data_from_indices(Len(input)),
                JobQueue_from_data(input, OPEN), domain)
    ELSE Ledger(input, [i \in 1..Len(output.rows) |-> Val(output.rows[i])],
                JobQueue_from_data(input, OPEN), domain)

\* ExperimentData.__init__(domain, input_data, output_data).
ExperimentData_init(domain, input, output) ==
    IF Len(output.rows) = 0
    THEN Ledger(input, Data_from_indices(Len(input)),
                JobQueue_from_data(input, OPEN), domain)
    ELSE Ledger(input, [i \in 1..Len(output.rows) |-> Val(output.rows[i])],
                JobQueue_from_data(input, FINISHED), domain)

\* ExperimentData.__init__(domain, input_data, output_data, jobs=path), jobs
\* being what _JobQueue.from_file reads from the file at path: the statuses
\* are first those of the file, and are then assigned again, from the data,
\* as they are when no path is given.
ExperimentData_init_jobs(domain, input, output, jobs) ==
    LET from_path == [ExperimentData_init(domain, input, output)
                         EXCEPT !.jobs = jobs]
        job_value == IF Len(output.rows) = 0 THEN OPEN ELSE FINISHED
    IN  [from_path EXCEPT
            !.jobs = JobQueue_from_data(from_path.input_data, job_value)]

\* ExperimentData.from_dataframe (and from_numpy, from_csv, which end in it).
from_dataframe(domain, dataframe_input, dataframe_output) ==
    LET experimentdata == ExperimentData_init(domain, <<>>, NoOutput)
    IN  IF dataframe_output.given
        THEN Ledger(dataframe_input,
                    [i \in 1..Len(dataframe_output.rows) |->
                        Val(dataframe_output.rows[i])],
                    JobQueue_from_data(dataframe_input, FINISHED),
                    experimentdata.domain)
        ELSE Ledger(dataframe_input,
                    Data_from_indices(Len(dataframe_input)),
                    JobQueue_from_data(dataframe_input, OPEN),
                    experimentdata.domain)

Length(L) == Len(L.input_data)

\* An operand of + that is neither an ExperimentData nor an ExperimentSample.
NotExperimentData == [type |-> "int"]

\* As __add__, but with the rows of other before the rows of self.
__add___other_first(self, other) ==
    IF other = NotExperimentData
    THEN [L |-> self, exc |-> TypeError]
    ELSE IF self.domain # other.domain
    THEN [L |-> self, exc |-> ValueError]
    ELSE [L |-> Ledger(other.input_data \o self.input_data,
                       other.output_data \o self.output_data,
                       other.jobs \o self.jobs, self.domain),
          exc |-> NoException]

\* As __add__, but without the comparison of the domains.
__add___any_domain(self, other) ==
    IF other = NotExperimentData
    THEN [L |-> self, exc |-> TypeError]
    ELSE [L |-> Ledger(self.input_data \o other.input_data,
                       self.output_data \o other.output_data,
                       self.jobs \o other.jobs, self.domain),
          exc |-> NoException]

\* ExperimentData.__add__: [L |-> the new ledger, exc |-> what it raised].
__add__(self, other) ==
    IF other = NotExperimentData
    THEN [L |-> self, exc |-> TypeError]
    ELSE IF self.domain # other.domain
    THEN [L |-> self, exc |-> ValueError]
    ELSE [L |-> Ledger(self.input_data \o other.input_data,
                       self.output_data \o other.output_data,
                       self.jobs \o other.jobs, self.domain),
          exc |-> NoException]

add_experiments(self, experiment_sample) ==
    [self EXCEPT !.input_data = @ \o experiment_sample.input_data,
                 !.output_data = @ \o experiment_sample.output_data,
                 !.jobs = @ \o experiment_sample.jobs]

add(self, data) ==
    [self EXCEPT !.input_data = Data_add(@, data),
                 !.output_data = add_empty_rows(@, Len(data)),
                 !.jobs = JobQueue_add(@, Len(data), OPEN)]

\* As add_numpy_arrays, but without the empty output rows when output is None.
add_numpy_arrays_no_empty_rows(self, input, output) ==
    IF ~output.given
    THEN [self EXCEPT !.input_data = Data_add(@, input),
                      !.jobs = JobQueue_add(@, Len(input), OPEN)]
    ELSE [self EXCEPT !.input_data = Data_add(@, input),
                      !.output_data =
                          Data_add(@, [i \in 1..Len(output.rows) |->
                                          Val(output.rows[i])]),
                      !.jobs = JobQueue_add(@, Len(input), FINISHED)]

add_numpy_arrays(self, input, output) ==
    IF ~output.given
    THEN [self EXCEPT !.input_data = Data_add(@, input),
                      !.output_data = add_empty_rows(@, Len(input)),
                      !.jobs = JobQueue_add(@, Len(input), OPEN)]
    ELSE [self EXCEPT !.input_data = Data_add(@, input),
                      !.output_data =
                          Data_add(@, [i \in 1..Len(output.rows) |->
                                          Val(output.rows[i])]),
                      !.jobs = JobQueue_add(@, Len(input), FINISHED)]

\* As fill_output, but marking every row FINISHED, not only the filled ones.
fill_output_marks_all(self, output) ==
    LET filled == fill_numpy_arrays(self.output_data, output)
    IN  [self EXCEPT !.output_data = filled.data,
                     !.jobs = mark_as_finished(@, 1..Len(self.jobs))]

fill_output(self, output) ==
    LET filled == fill_numpy_arrays(self.output_data, output)
    IN  [self EXCEPT !.output_data = filled.data,
                     !.jobs = mark_as_finished(@, filled.idx)]

\* As remove_rows_bottom, but without the early return for 0 rows: the slice
\* index[-0:] is the whole index.
remove_rows_bottom_no_early_return(self, number_of_rows) ==
    LET indices == {i \in 1..Len(self.input_data) :
                       \/ number_of_rows = 0
                       \/ i > Len(self.input_data) - number_of_rows}
    IN  [self EXCEPT !.input_data = Data_remove(@, indices),
                     !.output_data = Data_remove(@, indices),
                     !.jobs = JobQueue_remove(@, indices)]

remove_rows_bottom(self, number_of_rows) ==
    IF number_of_rows = 0 THEN self
    ELSE LET indices == {i \in 1..Len(self.input_data) :
                            i > Len(self.input_data) - number_of_rows}
         IN  [self EXCEPT !.input_data = Data_remove(@, indices),
                          !.output_data = Data_remove(@, indices),
                          !.jobs = JobQueue_remove(@, indices)]

\* A row view (ExperimentSample).
NoSample == [job_number |-> 0, input |-> 0, output |-> NaN]

get_experiment_sample(self, index) ==
    [job_number |-> index,
     input      |-> get_data_dict(self.input_data, index),
     output     |-> get_data_dict(self.output_data, index)]

set_experiment_sample(self, experiment_sample) ==
    [self EXCEPT !.output_data =
                     set_data(@, experiment_sample.job_number,
                              experiment_sample.output),
                 !.jobs = mark_as_finished(@, {experiment_sample.job_number})]

\* As access_open_job_data, but returning the view of the last row.
access_open_job_data_last_view(self) ==
    LET job_index == get_open_job(self.jobs)
    IN  IF job_index = 0
        THEN [L |-> self, exc |-> NoOpenJobsError, sample |-> NoSample]
        ELSE LET marked == [self EXCEPT
                               !.jobs = mark_as_in_progress(@, job_index)]
             IN  [L |-> marked, exc |-> NoException,
                  sample |-> get_experiment_sample(marked, Len(self.jobs))]

\* As access_open_job_data, but marking a row in progress before finding out
\* that no row is open.
access_open_job_data_marks_first(self) ==
    LET job_index == get_open_job(self.jobs)
    IN  IF job_index = 0
        THEN [L |-> IF Len(self.jobs) = 0 THEN self
                    ELSE [self EXCEPT !.jobs = mark_as_in_progress(@, 1)],
              exc |-> NoOpenJobsError, sample |-> NoSample]
        ELSE LET marked == [self EXCEPT
                               !.jobs = mark_as_in_progress(@, job_index)]
             IN  [L |-> marked, exc |-> NoException,
                  sample |-> get_experiment_sample(marked, job_index)]

\* As access_open_job_data, but leaving the claimed row OPEN.
access_open_job_data_no_mark(self) ==
    LET job_index == get_open_job(self.jobs)
    IN  IF job_index = 0
        THEN [L |-> self, exc |-> NoOpenJobsError, sample |-> NoSample]
        ELSE [L |-> self, exc |-> NoException,
              sample |-> get_experiment_sample(self, job_index)]

\* [L |-> the ledger afterwards, exc |-> what it raised, sample |-> the view].
access_open_job_data(self) ==
    LET job_index == get_open_job(self.jobs)
    IN  IF job_index = 0
        THEN [L |-> self, exc |-> NoOpenJobsError, sample |-> NoSample]
        ELSE LET marked == [self EXCEPT
                               !.jobs = mark_as_in_progress(@, job_index)]
             IN  [L |-> marked, exc |-> NoException,
                  sample |-> get_experiment_sample(marked, job_index)]

\* As set_error, with the output of the row left as it is.
set_error_keeps_output(self, index) ==
    [self EXCEPT !.jobs = mark_as_error(@, index)]

set_error(self, index) ==
    [self EXCEPT !.jobs = mark_as_error(@, index),
                 !.output_data = set_data(@, index, ErrorSentinel)]

mark_all_open(self) == [self EXCEPT !.jobs = JobQueue_mark_all_open(@)]

\* The files under one base name: _data, _jobs and _domain are there or not
\* (exists), _output is there or not (has_output), and L is what they hold.
Files(exists, has_output, L) ==
    [exists |-> exists, has_output |-> has_output, L |-> L]

\* ExperimentData.store: the four files now hold this ledger.
store(self) == Files(TRUE, TRUE, self)

\* As _from_file_attempt, but with the statuses made from the data the way the
\* constructor makes them, not read from the _jobs file.
_from_file_attempt_jobs_from_data(files) ==
    IF ~files.exists
    THEN [L |-> Ledger(<<>>, <<>>, <<>>, "D1"), exc |-> FileNotFoundError]
    ELSE [L |-> Ledger(files.L.input_data,
                       IF files.has_output THEN files.L.output_data
                       ELSE Data_from_indices(Len(files.L.input_data)),
                       JobQueue_from_data(files.L.input_data,
                           IF files.has_output THEN FINISHED ELSE OPEN),
                       files.L.domain),
          exc |-> NoException]

\* ExperimentData._from_file_attempt (from_file ends in it): the ledger read
\* from the files, or FileNotFoundError.
_from_file_attempt(files) ==
    IF ~files.exists
    THEN [L |-> Ledger(<<>>, <<>>, <<>>, "D1"), exc |-> FileNotFoundError]
    ELSE [L |-> Ledger(files.L.input_data,
                       IF files.has_output THEN files.L.output_data
                       ELSE Data_from_indices(Len(files.L.input_data)),
                       files.L.jobs, files.L.domain),
          exc |-> NoException]

\* ExperimentData.from_file: one attempt under the name given; the second
\* attempt, under hydra's original working directory, fails the same way when
\* hydra is not initialised or holds no such files.
from_file(files) ==
    LET first == _from_file_attempt(files)
    IN  IF first.exc = FileNotFoundError
        THEN [L |-> first.L, exc |-> FileNotFoundError]
        ELSE first

\* ExperimentData.__eq__: the four parts compared.
\* is_all_finished under _access_file: inside the lock the ledger is loaded
\* from the files, asked, and stored back; a failed load leaves the files.
is_all_finished(files) ==
    LET loaded == from_file(files)
    IN  IF loaded.exc # NoException
        THEN [value |-> FALSE, exc |-> loaded.exc, files |-> files]
        ELSE [value |-> JobQueue_is_all_finished(loaded.L.jobs),
              exc |-> NoException, files |-> store(loaded.L)]

__eq__(self, o) ==
    /\ self.input_data = o.input_data
    /\ self.output_data = o.output_data
    /\ self.jobs = o.jobs
    /\ self.domain = o.domain

\* experimentdata.py: _number_of_updates and _number_of_overiterations.
\* Python's // and % on non-negative integers; a bool added as 0 or 1.
_number_of_updates_floor(iterations, population) ==
    iterations \div population

_number_of_updates(iterations, population) ==
    (iterations \div population)
        + (IF iterations % population > 0 THEN 1 ELSE 0)

\* As _number_of_overiterations, but returning the remainder itself.
_number_of_overiterations_remainder(iterations, population) ==
    iterations % population

_number_of_overiterations(iterations, population) ==
    LET overiterations == iterations % population
    IN  IF overiterations = 0 THEN overiterations
        ELSE population - overiterations

\* optimizer.py: its own copies of the two functions.
optimizer_number_of_updates(iterations, population) ==
    (iterations \div population)
        + (IF iterations % population > 0 THEN 1 ELSE 0)

optimizer_number_of_overiterations(iterations, population) ==
    LET overiterations == iterations % population
    IN  IF overiterations = 0 THEN overiterations
        ELSE population - overiterations

\* ------------------------------------------------------------- state
Drivers == 1..NDrivers
NoDriver == 0

VARIABLES
    ledger,     \* the in-memory ExperimentData object run() or an operation is called on
    ret,        \* the last operation on it: its name, arguments and result
    claimed,    \* the rows claims have returned since the last mark_all_open, in order
    mode,       \* "api", or the policy of the run: sequential, parallel, cluster
    start,      \* the ledger as it was when the run started, or when it was last stored
    pc,         \* where each driver is in its run
    experiment_sample,  \* each driver's claimed row view
    options,    \* parallel: the views claimed up front
    results,    \* parallel: what the pool returned for each view
    disk,       \* the persisted ledger: the files under the base name
    lockOwner,  \* who holds the lock on the file the lock path names now
    loc,        \* cluster: the copy a driver loaded inside its critical section
    optimizer   \* the optimizer of an iteration: what it was asked and where it is

ledgerVars == <<ledger, ret, claimed>>
runVars == <<mode, start, pc, experiment_sample, options, results, disk,
             lockOwner, loc, optimizer>>
vars == <<ledger, ret, claimed, mode, start, pc, experiment_sample, options,
          results, disk, lockOwner, loc, optimizer>>

\* No optimizer at work.
NoOptimizer == [iterations |-> 0, population |-> 1]

Ret(op, exc, job, n, given, len0) ==
    [op |-> op, exc |-> exc, job |-> job, n |-> n, given |-> given,
     len0 |-> len0]

EmptyLedger == Ledger(<<>>, <<>>, <<>>, "D1")
NoDisk == Files(FALSE, FALSE, EmptyLedger)

\* The run variables while no run is going on.
RunIdleWith(m, o) ==
    /\ mode = m
    /\ start = EmptyLedger
    /\ pc = [d \in Drivers |-> "idle"]
    /\ experiment_sample = [d \in Drivers |-> NoSample]
    /\ options = <<>>
    /\ results = <<>>
    /\ disk = NoDisk
    /\ lockOwner = NoDriver
    /\ loc = [d \in Drivers |-> EmptyLedger]
    /\ optimizer = o

RunIdle == RunIdleWith("api", NoOptimizer)

\* ------------------------------------------------------------- SpecLedger
\* A ledger as a run or a load can find it: n rows with any statuses, the output of a
\* row set the way the operation that gave it its status sets it.
OutputOf(input, status) ==
    IF status = FINISHED THEN Val(input)
    ELSE IF status = ERROR THEN ErrorSentinel ELSE NaN

LedgersOf(n, inputs, statuses) ==
    {Ledger(input, [i \in 1..n |-> OutputOf(input[i], jobs[i])], jobs, "D1") :
        input \in inputs, jobs \in [1..n -> statuses]}

\* One table of n input rows with both values in it.
SomeInput(n) == [i \in 1..n |-> IF i % 2 = 1 THEN 1 ELSE 2]

\* The public operations of one in-memory ledger, called in any order. The
\* ledger is first made by a constructor or loaded from files.
InitFromFile ==
    \E n \in 0..MaxRows, has_output \in BOOLEAN :
      \E L \in LedgersOf(n, {SomeInput(n)}, Status) :
        /\ ledger = _from_file_attempt(Files(TRUE, has_output, L)).L
        /\ ret = Ret("from_file", NoException, 0, n, has_output, 0)
        /\ claimed = <<>>
        /\ RunIdle

InitConstructed ==
    \E input \in SeqsUpTo(Vals, MaxRows), given \in BOOLEAN,
       how \in {"__init__", "from_dataframe"} :
      \E output \in (IF given THEN {Given(o) : o \in [1..Len(input) -> Vals]}
                     ELSE {NoOutput}) :
        /\ ledger = IF how = "__init__"
                    THEN ExperimentData_init("D1", input, output)
                    ELSE from_dataframe("D1", input, output)
        /\ ret = Ret(how, NoException, 0, Len(input), given, 0)
        /\ claimed = <<>>
        /\ RunIdle

Add ==
    \E data \in SeqsUpTo(Vals, MaxRows - Length(ledger)) :
        /\ ledger' = add(ledger, data)
        /\ ret' = Ret("add", NoException, 0, Len(data), FALSE, Length(ledger))
        /\ UNCHANGED <<claimed, runVars>>

AddNumpyArrays ==
    \E input \in SeqsUpTo(Vals, MaxRows - Length(ledger)), given \in BOOLEAN :
      \E output \in (IF given THEN {Given(o) : o \in [1..Len(input) -> Vals]}
                     ELSE {NoOutput}) :
        /\ ledger' = add_numpy_arrays(ledger, input, output)
        /\ ret' = Ret("add_numpy_arrays", NoException, 0, Len(input), given,
                      Length(ledger))
        /\ UNCHANGED <<claimed, runVars>>

\* The ledgers a union or an add_experiments is given.
OtherLedgers ==
    {ExperimentData_init(d, input, output) :
        d \in Domains, input \in SeqsUpTo(Vals, MaxOther),
        output \in {NoOutput}}
    \cup {ExperimentData_init(d, input, Given(input)) :
        d \in Domains, input \in SeqsUpTo(Vals, MaxOther)}

\* What the caller of + may pass as other.
OtherOperands == OtherLedgers \cup {NotExperimentData}

OperandLength(other) ==
    IF other = NotExperimentData THEN 0 ELSE Length(other)

\* self + other, the result taking the place of self; ret keeps the operand.
UnionUpTo(cap) ==
    \E other \in OtherOperands :
        /\ Length(ledger) + OperandLength(other) <= cap
        /\ LET r == __add__(ledger, other)
           IN  /\ ledger' = r.L
               /\ ret' = [op |-> "__add__", exc |-> r.exc, job |-> 0,
                          n |-> OperandLength(other),
                          given |-> r.exc = NoException,
                          len0 |-> Length(ledger), other |-> other]
        /\ UNCHANGED <<claimed, runVars>>

Union == UnionUpTo(MaxRows)

AddExperiments ==
    \E other \in OtherLedgers :
        /\ Length(ledger) + Length(other) <= MaxRows
        /\ other.domain = ledger.domain
        /\ ledger' = add_experiments(ledger, other)
        /\ ret' = Ret("add_experiments", NoException, 0, Length(other), TRUE,
                      Length(ledger))
        /\ UNCHANGED <<claimed, runVars>>

FillOutput ==
    \E output \in [1..Cardinality(NaNIndices(ledger.output_data)) -> Vals] :
        /\ ledger' = fill_output(ledger, output)
        /\ ret' = Ret("fill_output", NoException, 0, Len(output), TRUE,
                      Length(ledger))
        /\ UNCHANGED <<claimed, runVars>>

RemoveRowsBottom ==
    \E number_of_rows \in 0..MaxRows :
        /\ ledger' = remove_rows_bottom(ledger, number_of_rows)
        /\ ret' = Ret("remove_rows_bottom", NoException, 0, number_of_rows,
                      FALSE, Length(ledger))
        /\ claimed' = LET kept(i) == i <= Length(ledger')
                       IN  SelectSeq(claimed, kept)
        /\ UNCHANGED runVars

\* access_open_job_data: a claim.
Claim ==
    LET r == access_open_job_data(ledger)
    IN  /\ ledger' = r.L
        /\ ret' = Ret("access_open_job_data", r.exc, r.sample.job_number, 0,
                      FALSE, Length(ledger))
        /\ claimed' = IF r.exc = NoException
                      THEN Append(claimed, r.sample.job_number) ELSE claimed
        /\ UNCHANGED runVars

\* set_experiment_sample: the commit of a row in progress, with the
\* evaluator's output written into its view.
Commit ==
    \E i \in 1..Length(ledger), v \in Vals :
        /\ ledger.jobs[i] = IN_PROGRESS
        /\ ledger' = set_experiment_sample(ledger,
              [get_experiment_sample(ledger, i) EXCEPT !.output = Val(v)])
        /\ ret' = Ret("set_experiment_sample", NoException, i, 0, TRUE,
                      Length(ledger))
        /\ UNCHANGED <<claimed, runVars>>

\* set_error: the failure of a row in progress.
Fail ==
    \E i \in 1..Length(ledger) :
        /\ ledger.jobs[i] = IN_PROGRESS
        /\ ledger' = set_error(ledger, i)
        /\ ret' = Ret("set_error", NoException, i, 0, FALSE, Length(ledger))
        /\ UNCHANGED <<claimed, runVars>>

MarkAllOpen ==
    /\ ledger' = mark_all_open(ledger)
    /\ ret' = Ret("mark_all_open", NoException, 0, 0, FALSE, Length(ledger))
    /\ claimed' = <<>>
    /\ UNCHANGED runVars

InitLedger == InitConstructed \/ InitFromFile

NextLedger ==
    \/ Add
    \/ AddNumpyArrays
    \/ Union
    \/ AddExperiments
    \/ FillOutput
    \/ RemoveRowsBottom
    \/ Claim
    \/ Commit
    \/ Fail
    \/ MarkAllOpen

SpecLedger == InitLedger /\ [][NextLedger]_vars

\* ------------------------------------------------------------- SpecUnion
\* Unions only, of ledgers with any statuses, up to MaxUnion rows.
UnionAny == UnionUpTo(MaxUnion)

SpecUnion == InitLedger /\ [][UnionAny]_vars

\* ------------------------------------------------------------- SpecAppend
\* add(data) called with data of any representation. _construct_data names
\* the representations a ledger is constructed from; a list of rows is not
\* one of them. add hands data to the input store and takes its length, and
\* does not look at its type.
RecognizedTypes == {"_Data", "pd.DataFrame", "np.ndarray", "Path", "str"}
Representations ==
    [type : {"pd.DataFrame", "list"}, rows : SeqsUpTo(Vals, MaxOther)]

AddData ==
    \E data \in Representations :
        /\ Length(ledger) + Len(data.rows) <= MaxUnion
        /\ ledger' = add(ledger, data.rows)
        /\ ret' = [op |-> "add", exc |-> NoException, job |-> 0,
                   n |-> Len(data.rows), given |-> FALSE,
                   len0 |-> Length(ledger), type |-> data.type]
        /\ UNCHANGED <<claimed, runVars>>

SpecAppend == InitLedger /\ [][AddData]_vars

\* ------------------------------------------------------------- SpecFiles
\* One ledger in memory and the files under its base name: the ledger is
\* stored, worked on, and loaded back; the _output or the _data file may go
\* missing in between.
InitFiles ==
    \E n \in 0..MaxRows : \E L \in LedgersOf(n, {SomeInput(n)}, Status) :
        /\ ledger = L
        /\ ret = Ret("_from_object", NoException, 0, n, TRUE, 0)
        /\ claimed = <<>>
        /\ RunIdle

\* store(): the four files are written from the ledger in memory.
Store ==
    /\ disk' = store(ledger)
    /\ start' = ledger
    /\ ret' = Ret("store", NoException, 0, Length(ledger), TRUE,
                  Length(ledger))
    /\ UNCHANGED <<ledger, claimed, mode, pc, experiment_sample, options,
                   results, lockOwner, loc,
                   optimizer>>

\* The _output file is not there (any more).
OutputFileAbsent ==
    /\ disk.exists /\ disk.has_output
    /\ disk' = [disk EXCEPT !.has_output = FALSE]
    /\ UNCHANGED <<ledger, ret, claimed, mode, start, pc, experiment_sample,
                   options, results, lockOwner, loc,
                   optimizer>>

\* The _data file is not there (any more).
DataFileAbsent ==
    /\ disk.exists
    /\ disk' = [disk EXCEPT !.exists = FALSE]
    /\ UNCHANGED <<ledger, ret, claimed, mode, start, pc, experiment_sample,
                   options, results, lockOwner, loc,
                   optimizer>>

\* from_file(): the ledger in memory is now the one loaded; when the load
\* raises there is no new ledger.
Load ==
    LET r == from_file(disk)
    IN  /\ ledger' = IF r.exc = NoException THEN r.L ELSE ledger
        /\ ret' = Ret("from_file", r.exc, 0, Length(r.L), disk.has_output,
                      Length(ledger))
        /\ claimed' = <<>>
        /\ UNCHANGED runVars

\* is_all_finished(): given is the value returned.
IsAllFinished ==
    LET r == is_all_finished(disk)
    IN  /\ disk' = r.files
        /\ ret' = Ret("is_all_finished", r.exc, 0, 0, r.value,
                      Length(ledger))
        /\ UNCHANGED <<ledger, claimed, mode, start, pc, experiment_sample,
                       options, results, lockOwner, loc, optimizer>>

NextFiles ==
    \/ Store
    \/ IsAllFinished
    \/ OutputFileAbsent
    \/ DataFileAbsent
    \/ Load
    \/ Claim
    \/ Commit
    \/ Fail

SpecFiles == InitFiles /\ [][NextFiles]_vars

\* ------------------------------------------------------------- SpecConstruct
\* The constructor called with the path of a _jobs file: the files under the
\* base name hold a ledger, and the caller passes the inputs of that ledger,
\* its outputs or none, and the path.
InitConstruct ==
    \E n \in 0..MaxRows : \E L \in LedgersOf(n, [1..n -> Vals], Status) :
        /\ ledger = EmptyLedger
        /\ ret = Ret("none", NoException, 0, n, FALSE, 0)
        /\ claimed = <<>>
        /\ mode = "construct"
        /\ start = L
        /\ pc = [d \in Drivers |-> IF d = 1 THEN "call" ELSE "idle"]
        /\ experiment_sample = [d \in Drivers |-> NoSample]
        /\ options = <<>>
        /\ results = <<>>
        /\ disk = store(L)
        /\ lockOwner = NoDriver
        /\ loc = [d \in Drivers |-> EmptyLedger]
        /\ optimizer = NoOptimizer

Construct ==
    /\ mode = "construct" /\ pc[1] = "call"
    /\ \E given \in BOOLEAN :
         LET output == IF given
                       THEN Given(disk.L.input_data) ELSE NoOutput
         IN  /\ ledger' = ExperimentData_init_jobs(disk.L.domain,
                              disk.L.input_data, output, disk.L.jobs)
             /\ ret' = Ret("__init__", NoException, 0,
                           Len(disk.L.input_data), given, 0)
    /\ pc' = [pc EXCEPT ![1] = "done"]
    /\ UNCHANGED <<claimed, mode, start, experiment_sample, options, results,
                   disk, lockOwner, loc, optimizer>>

SpecConstruct == InitConstruct /\ [][Construct]_vars

\* ------------------------------------------------------------- SpecCount
\* The two counting functions, both copies, called with any iteration count
\* and population; ret keeps the function called and what it returned.
InitCount ==
    \E iterations \in 0..MaxCountIterations,
       population \in 1..MaxCountPopulation :
        /\ ledger = EmptyLedger
        /\ ret = Ret("none", NoException, 0, 0, FALSE, 0)
        /\ claimed = <<>>
        /\ RunIdleWith("count", [iterations |-> iterations,
                                 population |-> population])

Returned(op, value) ==
    /\ ret' = Ret(op, NoException, 0, value, FALSE, 0)
    /\ UNCHANGED <<ledger, claimed, runVars>>

NumberOfUpdates ==
    Returned("_number_of_updates",
             _number_of_updates(optimizer.iterations, optimizer.population))

NumberOfOveriterations ==
    Returned("_number_of_overiterations",
             _number_of_overiterations(optimizer.iterations,
                                       optimizer.population))

OptimizerNumberOfUpdates ==
    Returned("optimizer._number_of_updates",
             optimizer_number_of_updates(optimizer.iterations,
                                         optimizer.population))

OptimizerNumberOfOveriterations ==
    Returned("optimizer._number_of_overiterations",
             optimizer_number_of_overiterations(optimizer.iterations,
                                                optimizer.population))

NextCount ==
    \/ NumberOfUpdates
    \/ NumberOfOveriterations
    \/ OptimizerNumberOfUpdates
    \/ OptimizerNumberOfOveriterations

SpecCount == InitCount /\ [][NextCount]_vars

\* ------------------------------------------------------------- the evaluator
\* data_generator.run on a row view: the view with its output filled in. It
\* may raise instead; the drivers' actions choose which.
data_generator_run(sample) == [sample EXCEPT !.output = Val(sample.input)]

\* What the evaluator raised when it raised.
EvaluatorException == "Exception"

\* ------------------------------------------------------------- run: start
RunStart(m, L, d) ==
    /\ mode = m
    /\ ledger = L
    /\ start = L
    /\ ret = Ret("run", NoException, 0, 0, FALSE, Length(L))
    /\ claimed = <<>>
    /\ experiment_sample = [e \in Drivers |-> NoSample]
    /\ options = <<>>
    /\ results = <<>>
    /\ lockOwner = NoDriver
    /\ loc = [e \in Drivers |-> EmptyLedger]
    /\ optimizer = NoOptimizer
    /\ disk = d

InitSequential ==
    \E n \in 0..MaxRows : \E L \in LedgersOf(n, [1..n -> Vals], Status) :
        /\ RunStart("sequential", L, NoDisk)
        /\ pc = [d \in Drivers |-> IF d = 1 THEN "claim" ELSE "idle"]

InitParallel ==
    \E n \in 0..MaxRows : \E L \in LedgersOf(n, [1..n -> Vals], Status) :
        /\ RunStart("parallel", L, NoDisk)
        /\ pc = [d \in Drivers |-> IF d = 1 THEN "claim" ELSE "idle"]

\* One to NDrivers driver processes call run(mode='cluster'). Every one of
\* them holds the same ledger in memory; the files are either not there yet
\* or hold that ledger.
InitClusterOf(nds) ==
    \E n \in 0..ClusterRows, nd \in nds :
      \E L \in LedgersOf(n, {SomeInput(n)}, {OPEN, FINISHED}) :
      \E d \in {NoDisk, store(L)} :
        /\ RunStart("cluster", L, d)
        /\ pc = [e \in Drivers |-> IF e <= nd THEN "start" ELSE "idle"]

InitCluster == InitClusterOf(Drivers)

Goto(d, label) == pc' = [pc EXCEPT ![d] = label]

\* ------------------------------------------------------------- _run_sequential
\* The claim at the top of the loop; NoOpenJobsError ends the sweep.
SeqClaim ==
    /\ mode = "sequential" /\ pc[1] = "claim"
    /\ LET r == access_open_job_data(ledger)
       IN  /\ ledger' = r.L
           /\ experiment_sample' = [experiment_sample EXCEPT ![1] = r.sample]
           /\ Goto(1, IF r.exc = NoOpenJobsError THEN "done" ELSE "run")
    /\ UNCHANGED <<ret, claimed, mode, start, options, results, disk,
                   lockOwner, loc,
                   optimizer>>

\* As SeqRun, but with the sweep ending when the evaluator raises.
SeqRun_aborts ==
    /\ mode = "sequential" /\ pc[1] = "run"
    /\ \E raises \in BOOLEAN :
         /\ ledger' = IF raises
                      THEN set_error(ledger, experiment_sample[1].job_number)
                      ELSE set_experiment_sample(ledger,
                               data_generator_run(experiment_sample[1]))
         /\ ret' = Ret("data_generator.run",
                       IF raises THEN EvaluatorException ELSE NoException,
                       experiment_sample[1].job_number, 0, ~raises,
                       Length(ledger))
         /\ Goto(1, IF raises THEN "done" ELSE "claim")
    /\ experiment_sample' = [experiment_sample EXCEPT ![1] = NoSample]
    /\ UNCHANGED <<claimed, mode, start, options, results, disk,
                   lockOwner, loc,
                   optimizer>>

\* The try block: the evaluator returns and the row is committed, or it
\* raises and the except block fails the row. ret keeps what the evaluator
\* did for the row.
SeqRun ==
    /\ mode = "sequential" /\ pc[1] = "run"
    /\ \E raises \in BOOLEAN :
         /\ ledger' = IF raises
                      THEN set_error(ledger, experiment_sample[1].job_number)
                      ELSE set_experiment_sample(ledger,
                               data_generator_run(experiment_sample[1]))
         /\ ret' = Ret("data_generator.run",
                       IF raises THEN EvaluatorException ELSE NoException,
                       experiment_sample[1].job_number, 0, ~raises,
                       Length(ledger))
    /\ experiment_sample' = [experiment_sample EXCEPT ![1] = NoSample]
    /\ Goto(1, "claim")
    /\ UNCHANGED <<claimed, mode, start, options, results, disk,
                   lockOwner, loc,
                   optimizer>>

\* One sequential sweep on its own. The loop is a single thread that takes
\* its next step whenever it has one, every call of the evaluator returning
\* or raising: weak fairness on the steps of the loop.
NextSequential == SeqClaim \/ SeqRun

SpecSequential ==
    InitSequential /\ [][NextSequential]_vars /\ WF_vars(NextSequential)

\* ------------------------------------------------------------- _run_multiprocessing
Pending(sample) == [state |-> "pending", sample |-> sample]

\* The first loop: claim every open row.
ParClaim ==
    /\ mode = "parallel" /\ pc[1] = "claim"
    /\ LET r == access_open_job_data(ledger)
       IN  /\ ledger' = r.L
           /\ IF r.exc = NoOpenJobsError
              THEN /\ Goto(1, "pool")
                   /\ UNCHANGED <<options, results>>
              ELSE /\ options' = Append(options, r.sample)
                   /\ results' = Append(results, Pending(r.sample))
                   /\ UNCHANGED pc
    /\ UNCHANGED <<ret, claimed, mode, start, experiment_sample, disk,
                   lockOwner, loc,
                   optimizer>>

\* A pool worker evaluates one view of the batch: it returns or raises.
ParEvaluate ==
    /\ mode = "parallel" /\ pc[1] = "pool"
    /\ \E k \in 1..Len(results), raises \in BOOLEAN :
        /\ results[k].state = "pending"
        /\ results' = [results EXCEPT ![k] =
              IF raises THEN [state |-> "raise", sample |-> options[k]]
              ELSE [state |-> "ok", sample |-> data_generator_run(options[k])]]
    /\ UNCHANGED <<ledger, ret, claimed, mode, start, pc, experiment_sample,
                   options, disk, lockOwner, loc,
                   optimizer>>

\* As ParGather, but without waiting for every worker of the pool.
ParGather_early ==
    /\ mode = "parallel" /\ pc[1] = "pool"
    /\ Goto(1, IF \E k \in 1..Len(results) : results[k].state = "raise"
               THEN "raised" ELSE "commit")
    /\ UNCHANGED <<ledger, ret, claimed, mode, start, experiment_sample,
                   options, results, disk, lockOwner, loc,
                   optimizer>>

\* pool.starmap returns the list of views, or re-raises a worker's exception,
\* which leaves _run_multiprocessing and run().
ParGather ==
    /\ mode = "parallel" /\ pc[1] = "pool"
    /\ \A k \in 1..Len(results) : results[k].state # "pending"
    /\ Goto(1, IF \E k \in 1..Len(results) : results[k].state = "raise"
               THEN "raised" ELSE "commit")
    /\ UNCHANGED <<ledger, ret, claimed, mode, start, experiment_sample,
                   options, results, disk, lockOwner, loc,
                   optimizer>>

\* The last loop: commit the returned views in order.
ParCommit ==
    /\ mode = "parallel" /\ pc[1] = "commit"
    /\ IF results = <<>>
       THEN /\ Goto(1, "done")
            /\ UNCHANGED <<ledger, results>>
       ELSE /\ ledger' = set_experiment_sample(ledger, Head(results).sample)
            /\ results' = Tail(results)
            /\ UNCHANGED pc
    /\ UNCHANGED <<ret, claimed, mode, start, experiment_sample, options,
                   disk, lockOwner, loc,
                   optimizer>>

\* ------------------------------------------------------------- _run_cluster
\* The lock of _access_file: FileLock locks the file the lock path names,
\* creating it when it is not there. acquire(owner, d) is the owner after d
\* has acquired it, release(owner, d) the owner after d has released the file
\* it locked, and unlink(owner) the owner once the path names no file: the
\* next acquirer creates a new file, which nobody has locked.
acquire(owner, d) == d
release(owner, d) == IF owner = d THEN NoDriver ELSE owner
unlink(owner) == NoDriver

\* The first lines: from_file outside the lock, and store when the files are
\* not found. The processes are alike, and are numbered in the order in which
\* they take this first step.
ClusterStart(d) ==
    /\ mode = "cluster" /\ pc[d] = "start"
    /\ \A e \in Drivers : e < d => pc[e] # "start"
    /\ Goto(d, IF disk.exists THEN "loop" ELSE "store")
    /\ UNCHANGED <<ledger, ret, claimed, mode, start, experiment_sample,
                   options, results, disk, lockOwner, loc,
                   optimizer>>

ClusterStore(d) ==
    /\ mode = "cluster" /\ pc[d] = "store"
    /\ disk' = store(ledger)
    /\ Goto(d, "loop")
    /\ UNCHANGED <<ledger, ret, claimed, mode, start, experiment_sample,
                   options, results, lockOwner, loc,
                   optimizer>>

\* _access_file, first half: acquire the lock and load the ledger from disk.
access_file_enter(d) ==
    /\ lockOwner = NoDriver
    /\ lockOwner' = acquire(lockOwner, d)
    /\ loc' = [loc EXCEPT ![d] = _from_file_attempt(disk).L]

\* get_open_job_data, first half.
ClusterEnterClaim(d) ==
    /\ mode = "cluster" /\ pc[d] = "loop"
    /\ access_file_enter(d)
    /\ Goto(d, "cs_claim")
    /\ UNCHANGED <<ledger, ret, claimed, mode, start, experiment_sample,
                   options, results, disk,
                   optimizer>>

\* The try block up to the lock: data_generator.run returns and
\* write_experiment_sample acquires the lock, or it raises and write_error
\* in the except block acquires the lock.
ClusterRun(d) ==
    /\ mode = "cluster" /\ pc[d] = "run"
    /\ access_file_enter(d)
    /\ \E raises \in BOOLEAN :
         IF raises
         THEN /\ Goto(d, "cs_fail")
              /\ UNCHANGED experiment_sample
         ELSE /\ Goto(d, "cs_commit")
              /\ experiment_sample' = [experiment_sample EXCEPT ![d] =
                                          data_generator_run(@)]
    /\ UNCHANGED <<ledger, ret, claimed, mode, start, options, results, disk,
                   optimizer>>

\* As ClusterClaim, but with the lock kept when the claim raises.
ClusterClaim_holds_on_raise(d) ==
    /\ mode = "cluster" /\ pc[d] = "cs_claim"
    /\ LET r == access_open_job_data(loc[d])
       IN  /\ disk' = IF r.exc = NoException THEN store(r.L) ELSE disk
           /\ experiment_sample' = [experiment_sample EXCEPT ![d] = r.sample]
           /\ Goto(d, IF r.exc = NoOpenJobsError THEN "final" ELSE "run")
           /\ lockOwner' = IF r.exc = NoException
                           THEN release(lockOwner, d) ELSE lockOwner
    /\ loc' = [loc EXCEPT ![d] = EmptyLedger]
    /\ UNCHANGED <<ledger, ret, claimed, mode, start, options, results,
                   optimizer>>

\* get_open_job_data, second half: the claim on the loaded copy; the copy is
\* stored unless the claim raised, and the lock is released either way.
ClusterClaim(d) ==
    /\ mode = "cluster" /\ pc[d] = "cs_claim"
    /\ LET r == access_open_job_data(loc[d])
       IN  /\ disk' = IF r.exc = NoException THEN store(r.L) ELSE disk
           /\ experiment_sample' = [experiment_sample EXCEPT ![d] = r.sample]
           /\ Goto(d, IF r.exc = NoOpenJobsError THEN "final" ELSE "run")
    /\ lockOwner' = release(lockOwner, d)
    /\ loc' = [loc EXCEPT ![d] = EmptyLedger]
    /\ UNCHANGED <<ledger, ret, claimed, mode, start, options, results,
                   optimizer>>

\* As ClusterCommit, but with the commit made on the caller's ledger as well.
ClusterCommit_on_self(d) ==
    /\ mode = "cluster" /\ pc[d] = "cs_commit"
    /\ disk' = store(set_experiment_sample(loc[d], experiment_sample[d]))
    /\ ledger' = set_experiment_sample(loc[d], experiment_sample[d])
    /\ lockOwner' = release(lockOwner, d)
    /\ loc' = [loc EXCEPT ![d] = EmptyLedger]
    /\ experiment_sample' = [experiment_sample EXCEPT ![d] = NoSample]
    /\ Goto(d, "loop")
    /\ UNCHANGED <<ret, claimed, mode, start, options, results,
                   optimizer>>

\* write_experiment_sample, second half.
ClusterCommit(d) ==
    /\ mode = "cluster" /\ pc[d] = "cs_commit"
    /\ disk' = store(set_experiment_sample(loc[d], experiment_sample[d]))
    /\ lockOwner' = release(lockOwner, d)
    /\ loc' = [loc EXCEPT ![d] = EmptyLedger]
    /\ experiment_sample' = [experiment_sample EXCEPT ![d] = NoSample]
    /\ Goto(d, "loop")
    /\ UNCHANGED <<ledger, ret, claimed, mode, start, options, results,
                   optimizer>>

\* write_error, second half.
ClusterFail(d) ==
    /\ mode = "cluster" /\ pc[d] = "cs_fail"
    /\ disk' = store(set_error(loc[d], experiment_sample[d].job_number))
    /\ lockOwner' = release(lockOwner, d)
    /\ loc' = [loc EXCEPT ![d] = EmptyLedger]
    /\ experiment_sample' = [experiment_sample EXCEPT ![d] = NoSample]
    /\ Goto(d, "loop")
    /\ UNCHANGED <<ledger, ret, claimed, mode, start, options, results,
                   optimizer>>

\* After the loop: from_file once more, then the lock file is removed.
ClusterFinal(d) ==
    /\ mode = "cluster" /\ pc[d] = "final"
    /\ lockOwner' = unlink(lockOwner)
    /\ Goto(d, "done")
    /\ UNCHANGED <<ledger, ret, claimed, mode, start, experiment_sample,
                   options, results, disk, loc,
                   optimizer>>

NextCluster ==
    \E d \in Drivers :
        \/ ClusterStart(d)
        \/ ClusterStore(d)
        \/ ClusterEnterClaim(d)
        \/ ClusterClaim(d)
        \/ ClusterRun(d)
        \/ ClusterCommit(d)
        \/ ClusterFail(d)
        \/ ClusterFinal(d)

SpecCluster == InitCluster /\ [][NextCluster]_vars

\* One caller of run(), in each of the three modes.
InitRun == InitSequential \/ InitParallel \/ InitClusterOf({1})

NextRun ==
    \/ SeqClaim
    \/ SeqRun
    \/ ParClaim
    \/ ParEvaluate
    \/ ParGather
    \/ ParCommit
    \/ NextCluster

SpecRun == InitRun /\ [][NextRun]_vars

\* The cluster drivers as live processes: a driver takes its next step when
\* it has one (weak fairness), and a driver that waits for the lock gets it
\* when the lock is free again and again (strong fairness on the two steps
\* that enter _access_file).
ClusterAcquire(d) == ClusterEnterClaim(d) \/ ClusterRun(d)

ClusterProceed(d) ==
    \/ ClusterStart(d)
    \/ ClusterStore(d)
    \/ ClusterClaim(d)
    \/ ClusterCommit(d)
    \/ ClusterFail(d)
    \/ ClusterFinal(d)

SpecClusterFair ==
    /\ InitCluster /\ [][NextCluster]_vars
    /\ \A d \in Drivers : WF_vars(ClusterProceed(d)) /\ SF_vars(ClusterAcquire(d))

\* A driver process that dies between get_open_job_data and
\* write_experiment_sample / write_error: it holds no lock there, and nothing
\* in the loop of _run_cluster undoes its claim.
ClusterCrash(d) ==
    /\ mode = "cluster" /\ pc[d] = "run"
    /\ Goto(d, "crashed")
    /\ UNCHANGED <<ledger, ret, claimed, mode, start, experiment_sample,
                   options, results, disk, lockOwner, loc,
                   optimizer>>

NextCrash ==
    \/ NextCluster
    \/ \E d \in Drivers : ClusterCrash(d)

SpecCrash == InitCluster /\ [][NextCrash]_vars

\* ------------------------------------------------------------- SpecRows
\* set_error and set_experiment_sample called on any row of a ledger whose
\* rows have any status. set_experiment_sample is taken statement by
\* statement: the loop that writes the view's outputs, then the mark.
InitRows ==
    \E input \in SeqsUpTo(Vals, MaxRows) :
      \E L \in LedgersOf(Len(input), {input}, Status) :
        /\ ledger = L
        /\ ret = Ret("_from_object", NoException, 0, Len(input), FALSE, 0)
        /\ claimed = <<>>
        /\ RunIdleWith("rows", NoOptimizer)

\* set_error(index) on an existing row.
SetError ==
    \E index \in 1..Length(ledger) :
        /\ pc[1] = "idle"
        /\ ledger' = set_error(ledger, index)
        /\ ret' = Ret("set_error", NoException, index, 0, FALSE,
                      Length(ledger))
        /\ UNCHANGED <<claimed, runVars>>

\* set_experiment_sample is called with the view of a row that carries an
\* output; start keeps the ledger as it was at the call.
SetExperimentSampleCall ==
    \E index \in 1..Length(ledger), v \in Vals :
        /\ pc[1] = "idle"
        /\ experiment_sample' = [experiment_sample EXCEPT ![1] =
              [get_experiment_sample(ledger, index) EXCEPT !.output = Val(v)]]
        /\ start' = ledger
        /\ Goto(1, "set_data")
        /\ ret' = Ret("set_experiment_sample", NoException, index, 0, TRUE,
                      Length(ledger))
        /\ UNCHANGED <<ledger, claimed, mode, options, results, disk,
                       lockOwner, loc, optimizer>>

\* As SetExperimentSampleWrite, with the row marked FINISHED before its
\* output is written.
SetExperimentSampleWrite_marks_first ==
    /\ pc[1] = "set_data"
    /\ \E raises \in BOOLEAN :
         LET marked == [ledger EXCEPT !.jobs =
                 mark_as_finished(@, {experiment_sample[1].job_number})]
         IN  IF raises
             THEN /\ ledger' = marked
                  /\ ret' = [ret EXCEPT !.exc = KeyError]
                  /\ Goto(1, "raised")
             ELSE /\ ledger' = [marked EXCEPT !.output_data =
                        set_data(@, experiment_sample[1].job_number,
                                 experiment_sample[1].output)]
                  /\ ret' = ret
                  /\ Goto(1, "mark_as_finished")
    /\ UNCHANGED <<claimed, mode, start, experiment_sample, options, results,
                   disk, lockOwner, loc, optimizer>>

\* The loop over the view's outputs: set_data writes the value into the row
\* of the output store, or raises (the column is absent) and the exception
\* leaves set_experiment_sample.
SetExperimentSampleWrite ==
    /\ pc[1] = "set_data"
    /\ \E raises \in BOOLEAN :
         IF raises
         THEN /\ ledger' = ledger
              /\ ret' = [ret EXCEPT !.exc = KeyError]
              /\ Goto(1, "raised")
         ELSE /\ ledger' = [ledger EXCEPT !.output_data =
                    set_data(@, experiment_sample[1].job_number,
                             experiment_sample[1].output)]
              /\ ret' = ret
              /\ Goto(1, "mark_as_finished")
    /\ UNCHANGED <<claimed, mode, start, experiment_sample, options, results,
                   disk, lockOwner, loc, optimizer>>

\* After the loop: jobs.mark_as_finished, and the call returns.
SetExperimentSampleMark ==
    /\ pc[1] = "mark_as_finished"
    /\ ledger' = [ledger EXCEPT !.jobs =
          mark_as_finished(@, {experiment_sample[1].job_number})]
    /\ ret' = [ret EXCEPT !.n = 1]
    /\ Goto(1, "idle")
    /\ UNCHANGED <<claimed, mode, start, experiment_sample, options, results,
                   disk, lockOwner, loc, optimizer>>

\* The caller goes on after the exception.
SetExperimentSampleRaised ==
    /\ pc[1] = "raised"
    /\ ret' = [ret EXCEPT !.n = 2]
    /\ Goto(1, "idle")
    /\ UNCHANGED <<ledger, claimed, mode, start, experiment_sample, options,
                   results, disk, lockOwner, loc, optimizer>>

NextRows ==
    \/ SetError
    \/ SetExperimentSampleCall
    \/ SetExperimentSampleWrite
    \/ SetExperimentSampleMark
    \/ SetExperimentSampleRaised

SpecRows == InitRows /\ [][NextRows]_vars

\* ------------------------------------------------------------- SpecObjects
\* _io.py: save_object and load_object on the files of one base name under
\* the experiment data directory. A path is told by its suffix; the files
\* are kept in disk, one per suffix. In ret, suffix is what save_object
\* returned and value what load_object returned.
\* None as an argument and as what save_object returns; None as a loaded
\* value; no file at a path.
None == "None"
NoneObject == [type |-> "NoneType", data |-> <<>>]
NoFile == [type |-> "no file", data |-> <<>>]

PickleStore == "PickleStore"
NumpyStore == "NumpyStore"
PandasStore == "PandasStore"
XarrayStore == "XarrayStore"
Stores == {PickleStore, NumpyStore, PandasStore, XarrayStore}

\* The class attribute suffix of each store.
suffix(store_type) ==
    CASE store_type = PickleStore -> ".pkl"
      [] store_type = NumpyStore -> ".npy"
      [] store_type = PandasStore -> ".csv"
      [] store_type = XarrayStore -> ".nc"

STORE_TYPE_MAPPING ==
    [t \in {"np.ndarray", "pd.DataFrame", "pd.Series", "xr.DataArray",
            "xr.Dataset"} |->
        CASE t = "np.ndarray" -> NumpyStore
          [] t \in {"pd.DataFrame", "pd.Series"} -> PandasStore
          [] t \in {"xr.DataArray", "xr.Dataset"} -> XarrayStore]

\* The values saved: of a registered type, or a dict.
ObjectTypes == DOMAIN STORE_TYPE_MAPPING \cup {"dict"}
Objects == [type : ObjectTypes, data : {<<1>>}]

\* The suffixes a caller's path can have.
PathSuffixes == {"", ".pkl", ".npy", ".csv", ".nc", ".txt"}
NoFiles == [s \in PathSuffixes |-> NoFile]

\* _Store.store: the object is written to path.with_suffix(self.suffix).
Store_store(store_type, object, files) ==
    [files EXCEPT ![suffix(store_type)] = object]

\* What reading a file back gives. pickle.load and np.load give the value
\* that was written. pd.read_csv gives a DataFrame in which the index that
\* to_csv wrote is one more column (0 here). xr.open_dataset gives a Dataset,
\* in which a DataArray written by to_netcdf is a variable.
read_back(store_type, written) ==
    CASE store_type = PickleStore -> written
      [] store_type = NumpyStore -> written
      [] store_type = PandasStore ->
            [type |-> "pd.DataFrame",
             data |-> <<0>> \o written.data]
      [] store_type = XarrayStore ->
            IF written.type = "xr.Dataset" THEN written
            ELSE [type |-> "xr.Dataset", data |-> written.data]

\* _Store.load: reads path.with_suffix(self.suffix).
Store_load(store_type, files) ==
    IF files[suffix(store_type)] = NoFile
    THEN [value |-> NoneObject, exc |-> FileNotFoundError]
    ELSE [value |-> read_back(store_type, files[suffix(store_type)]),
          exc |-> NoException]

\* load_object(path, experimentdata_directory, store_method): store_method
\* is a store, None, or "default" when the caller leaves it out.
load_object(path, store_method, files) ==
    LET method == IF store_method = "default" THEN PickleStore
                  ELSE store_method
    IN  IF method # None THEN Store_load(method, files)
        ELSE IF files[path] = NoFile
        THEN [value |-> NoneObject, exc |-> NoException]
        ELSE LET matching == {store_type \in Stores \ {PickleStore} :
                                 suffix(store_type) = path}
                 matched_store_type ==
                     IF matching = {} THEN PickleStore
                     ELSE CHOOSE store_type \in matching : TRUE
             IN  Store_load(matched_store_type, files)

\* save_object(object, path, experimentdata_directory, store_method):
\* store_method is a store, or None, which is also its default. With a
\* store given the function returns (None) after constructing the storage.
save_object(object, path, store_method, files) ==
    LET method == IF store_method = "default" THEN None ELSE store_method
    IN  IF method # None
        THEN [value |-> None, exc |-> NoException, files |-> files]
        ELSE LET storage ==
                     IF object.type \notin DOMAIN STORE_TYPE_MAPPING
                     THEN PickleStore
                     ELSE STORE_TYPE_MAPPING[object.type]
             IN  [value |-> suffix(storage), exc |-> NoException,
                  files |-> Store_store(storage, object, files)]

StoreMethods == Stores \cup {None, "default"}

InitObjects ==
    /\ ledger = EmptyLedger
    /\ ret = [op |-> "none", exc |-> NoException, suffix |-> None,
              value |-> NoneObject, object |-> NoneObject, path |-> "", store_method |-> "default"]
    /\ claimed = <<>>
    /\ mode = "objects"
    /\ start = EmptyLedger
    /\ pc = [d \in Drivers |-> "idle"]
    /\ experiment_sample = [d \in Drivers |-> NoSample]
    /\ options = <<>>
    /\ results = <<>>
    /\ disk = NoFiles
    /\ lockOwner = NoDriver
    /\ loc = [d \in Drivers |-> EmptyLedger]
    /\ optimizer = NoOptimizer

SaveObject ==
    \E object \in Objects, path \in PathSuffixes,
       store_method \in StoreMethods :
        LET r == save_object(object, path, store_method, disk)
        IN  /\ disk' = r.files
            /\ ret' = [op |-> "save_object", exc |-> r.exc,
                       suffix |-> r.value, value |-> NoneObject,
                       object |-> object, path |-> path,
                       store_method |-> store_method]
            /\ UNCHANGED <<ledger, claimed, mode, start, pc,
                           experiment_sample, options, results, lockOwner,
                           loc, optimizer>>

LoadObject ==
    \E path \in PathSuffixes, store_method \in StoreMethods :
        LET r == load_object(path, store_method, disk)
        IN  /\ ret' = [op |-> "load_object", exc |-> r.exc,
                       suffix |-> None, value |-> r.value,
                       object |-> NoneObject, path |-> path,
                       store_method |-> store_method]
            /\ UNCHANGED <<ledger, claimed, mode, start, pc,
                           experiment_sample, options, results, disk,
                           lockOwner, loc, optimizer>>

NextObjects ==
    \/ SaveObject
    \/ LoadObject

SpecObjects == InitObjects /\ [][NextObjects]_vars

\* ------------------------------------------------------------- SpecIterate
\* One call of ExperimentData._iterate, ExperimentData._iterate_scipy or
\* Optimizer.iterate on a ledger, with any iteration count and population.
\* The ledger may hold rows left IN_PROGRESS by an earlier run.
Controllers == {"_iterate", "_iterate_scipy", "Optimizer.iterate"}

InitIterate ==
    \E m \in Controllers, iterations \in 0..MaxIterations,
       population \in 1..MaxPopulation, n \in 0..MaxStartRows :
      \E L \in LedgersOf(n, {SomeInput(n)}, {OPEN, IN_PROGRESS, FINISHED}) :
        /\ mode = m
        /\ ledger = L
        /\ start = L
        /\ ret = Ret(m, NoException, 0, iterations, FALSE, Length(L))
        /\ claimed = <<>>
        /\ pc = [d \in Drivers |-> IF d = 1 THEN "check" ELSE "idle"]
        /\ experiment_sample = [d \in Drivers |-> NoSample]
        /\ options = <<>>
        /\ results = <<>>
        /\ disk = NoDisk
        /\ lockOwner = NoDriver
        /\ loc = [d \in Drivers |-> EmptyLedger]
        /\ optimizer = [iterations |-> iterations, population |-> population,
                        updates |-> 0, data |-> 0]

\* _run_sequential as one operation: the rows are claimed in turn until none
\* is open; the evaluator raises for the rows in raising and returns for the
\* others.
RECURSIVE run_sequential(_, _)
run_sequential(self, raising) ==
    LET r == access_open_job_data(self)
    IN  IF r.exc = NoOpenJobsError THEN self
        ELSE run_sequential(
                 IF r.sample.job_number \in raising
                 THEN set_error(r.L, r.sample.job_number)
                 ELSE set_experiment_sample(r.L, data_generator_run(r.sample)),
                 raising)

\* As SequentialSweeps, but with the sweep left out.
SequentialSweeps_skipped(self) == {self}

\* The ledgers a sequential sweep of self can end in.
SequentialSweeps(self) ==
    {run_sequential(self, raising) : raising \in SUBSET OpenJobs(self.jobs)}

\* optimizer.update_step of the _Optimizer protocol: population new rows, not
\* evaluated yet.
update_step(domain, population) ==
    ExperimentData_init(domain, SomeInput(population), NoOutput)

\* ExperimentSample.from_numpy(x) or (x, y) as an operand of + and of
\* add_experiments: one row, OPEN without an output, FINISHED with one.
ExperimentSample_from_numpy(domain, x, y) ==
    Ledger(<<x>>, <<y>>, <<IF y = NaN THEN OPEN ELSE FINISHED>>, domain)

\* add_experiments called times times with the same row view.
RECURSIVE add_repeated(_, _, _)
add_repeated(self, sample, times) ==
    IF times <= 0 THEN self
    ELSE add_repeated(add_experiments(self, sample), sample, times - 1)

\* As _check_number_of_datapoints, but never raising.
_check_number_of_datapoints_skipped(data, population) == NoException

\* optimizer._check_number_of_datapoints after set_x0: ValueError when the
\* data has fewer rows than the population.
_check_number_of_datapoints(data, population) ==
    IF Length(data) < population THEN ValueError ELSE NoException

\* The check at the top of each controller; the number of rounds is fixed
\* when the loop is entered.
ControllerCheck(m, updates) ==
    /\ mode = m /\ pc[1] = "check"
    /\ LET exc == _check_number_of_datapoints(ledger, optimizer.population)
       IN  /\ ret' = [ret EXCEPT !.exc = exc]
           /\ Goto(1, IF exc = ValueError THEN "raised" ELSE "update")
    /\ optimizer' = [optimizer EXCEPT !.updates = updates]
    /\ UNCHANGED <<ledger, claimed, mode, start, experiment_sample, options,
                   results, disk, lockOwner, loc>>

IterateCheck ==
    ControllerCheck("_iterate",
        _number_of_updates(optimizer.iterations, optimizer.population))

\* One round of _iterate: update_step, add_experiments, run, set_data.
IterateUpdate ==
    /\ mode = "_iterate" /\ pc[1] = "update" /\ optimizer.updates > 0
    /\ LET new_samples == update_step(ledger.domain, optimizer.population)
       IN  ledger' \in SequentialSweeps(add_experiments(ledger, new_samples))
    /\ optimizer' = [optimizer EXCEPT !.updates = @ - 1]
    /\ UNCHANGED <<ret, claimed, mode, start, pc, experiment_sample, options,
                   results, disk, lockOwner, loc>>

\* After the last round: the overiterations are removed, the optimizer reset.
IterateTrim ==
    /\ mode = "_iterate" /\ pc[1] = "update" /\ optimizer.updates = 0
    /\ ledger' = remove_rows_bottom(ledger,
          _number_of_overiterations(optimizer.iterations,
                                    optimizer.population))
    /\ Goto(1, "done")
    /\ UNCHANGED <<ret, claimed, mode, start, experiment_sample, options,
                   results, disk, lockOwner, loc, optimizer>>

OptimizerIterateCheck ==
    ControllerCheck("Optimizer.iterate",
        optimizer_number_of_updates(optimizer.iterations,
                                    optimizer.population))

\* The rows of one update_step of Optimizer.iterate, each added to the data
\* with +=, evaluated already.
RECURSIVE add_samples(_, _)
add_samples(data, k) ==
    IF k = 0 THEN data
    ELSE LET x == SomeInput(k)[k]
         IN  __add__(add_samples(data, k - 1),
                     ExperimentSample_from_numpy(data.domain, x, Val(x))).L

OptimizerIterateUpdate ==
    /\ mode = "Optimizer.iterate" /\ pc[1] = "update"
    /\ optimizer.updates > 0
    /\ ledger' = add_samples(ledger, optimizer.population)
    /\ optimizer' = [optimizer EXCEPT !.updates = @ - 1]
    /\ UNCHANGED <<ret, claimed, mode, start, pc, experiment_sample, options,
                   results, disk, lockOwner, loc>>

OptimizerIterateTrim ==
    /\ mode = "Optimizer.iterate" /\ pc[1] = "update"
    /\ optimizer.updates = 0
    /\ ledger' = remove_rows_bottom(ledger,
          optimizer_number_of_overiterations(optimizer.iterations,
                                             optimizer.population))
    /\ Goto(1, "done")
    /\ UNCHANGED <<ret, claimed, mode, start, experiment_sample, options,
                   results, disk, lockOwner, loc, optimizer>>

\* _iterate_scipy has no loop of rounds: run_algorithm is called once.
ScipyCheck == ControllerCheck("_iterate_scipy", 1)

\* get_n_best_input_parameters_numpy(1) as a row view: the input of a row of
\* the ledger (here the first), without an output.
BestDesign(self) ==
    ExperimentSample_from_numpy(self.domain, self.input_data[1], NaN)

\* get_experiment_sample of the last row, as an operand of add_experiments.
LastDesign(self) ==
    LET last == get_experiment_sample(self, Length(self))
    IN  ExperimentSample_from_numpy(self.domain, last.input, last.output)

\* _iterate_scipy after run_algorithm has left produced rows in the
\* optimizer's data: they are added; when none was, the best row is repeated
\* iterations times; when fewer than iterations were, the last row is
\* repeated up to iterations.
iterate_scipy_fill(self, produced, iterations) ==
    LET n_data_before_iterate == Length(self)
        added == add_experiments(self, update_step(self.domain, produced))
        best == IF Length(added) = n_data_before_iterate
                THEN add_repeated(added, BestDesign(added), iterations)
                ELSE added
    IN  IF Length(best) < n_data_before_iterate + iterations
        THEN add_repeated(best, LastDesign(best),
                 iterations - (Length(best) - n_data_before_iterate))
        ELSE best

\* run_algorithm, the fill and the sequential run of _iterate_scipy; the
\* optimizer produces any number of rows up to one more than iterations.
ScipyAlgorithm ==
    /\ mode = "_iterate_scipy" /\ pc[1] = "update"
    /\ \E produced \in 0..(optimizer.iterations + 1) :
         /\ ledger' \in SequentialSweeps(
               iterate_scipy_fill(ledger, produced, optimizer.iterations))
         /\ optimizer' = [optimizer EXCEPT !.data = produced]
    /\ Goto(1, "done")
    /\ UNCHANGED <<ret, claimed, mode, start, experiment_sample, options,
                   results, disk, lockOwner, loc>>

NextIterate ==
    \/ IterateCheck
    \/ IterateUpdate
    \/ IterateTrim
    \/ OptimizerIterateCheck
    \/ OptimizerIterateUpdate
    \/ OptimizerIterateTrim
    \/ ScipyCheck
    \/ ScipyAlgorithm

SpecIterate == InitIterate /\ [][NextIterate]_vars

\* ------------------------------------------------------------- claims
\* C1: under the cluster policy no row is claimed by two different driver
\* processes: no two drivers hold a view of the same row.
Holding(d) == experiment_sample[d].job_number # 0

C1_NoRowClaimedTwice ==
    \A d \in Drivers, e \in Drivers :
        (d # e /\ Holding(d) /\ Holding(e))
            => experiment_sample[d].job_number # experiment_sample[e].job_number

\* C2: once every cluster driver has returned, every row that was OPEN at the
\* start is FINISHED or ERROR in the persisted ledger and no row is
\* IN_PROGRESS.
AllReturned == \A d \in Drivers : pc[d] \in {"done", "idle"}

Settled(jobs) ==
    /\ Len(jobs) = Len(start.jobs)
    /\ \A i \in 1..Len(jobs) :
          /\ jobs[i] # IN_PROGRESS
          /\ start.jobs[i] = OPEN => jobs[i] \in {FINISHED, ERROR}

C2_AllRowsSettled == AllReturned => Settled(disk.L.jobs)

RunEnded == \A d \in Drivers : pc[d] \in {"done", "raised", "idle"}

C4_SweepSettlesOpenRows ==
    RunEnded =>
        \A i \in 1..Len(start.jobs) :
            start.jobs[i] = OPEN =>
                (IF mode = "cluster" THEN disk.L.jobs[i] ELSE ledger.jobs[i])
                    \in {FINISHED, ERROR}

\* C5: in every run mode an exception of the evaluator is caught by the
\* driver and never leaves run().
C5_EvaluatorExceptionCaught == \A d \in Drivers : pc[d] # "raised"

\* C6: without mark_all_open, every status change of a row is OPEN to
\* IN_PROGRESS, IN_PROGRESS to FINISHED or IN_PROGRESS to ERROR, and a
\* FINISHED or ERROR row never changes status. As amended: fill_output also
\* takes every row whose output is unset to FINISHED, whatever its status.
LegalChange(a, b) ==
    \/ a = b
    \/ a = OPEN /\ b = IN_PROGRESS
    \/ a = IN_PROGRESS /\ b \in {FINISHED, ERROR}

\* The rows that are there before and after a step.
KeptRows ==
    {i \in 1..Len(ledger.jobs) : i <= Len(ledger'.jobs)}

C7_ClaimLowestOpen ==
    [][ret'.op = "access_open_job_data" =>
          IF \A i \in 1..Len(ledger.jobs) : ledger.jobs[i] # OPEN
          THEN ret'.exc = NoOpenJobsError
          ELSE /\ ret'.exc = NoException
               /\ ret'.job \in 1..Len(ledger.jobs)
               /\ ledger.jobs[ret'.job] = OPEN
               /\ \A j \in 1..(ret'.job - 1) : ledger.jobs[j] # OPEN
               /\ ledger'.jobs = [ledger.jobs EXCEPT ![ret'.job] = IN_PROGRESS]
               /\ ledger'.input_data = ledger.input_data
               /\ ledger'.output_data = ledger.output_data]_vars

C7_Witness ==
    /\ ret.op = "access_open_job_data" /\ ret.exc = NoException
    /\ ret.job = 2
    /\ ledger.jobs[1] = ERROR /\ ledger.jobs[2] = IN_PROGRESS

\* C8: a claim made when no row is OPEN raises NoOpenJobsError (the sweep
\* ends) and changes nothing: not the ledger in memory for
\* access_open_job_data, not the files for the lock-wrapped
\* get_open_job_data.
NoneOpen(jobs) == \A i \in 1..Len(jobs) : jobs[i] # OPEN

C8_FailedClaimChangesNothing ==
    [][/\ (mode \in {"sequential", "parallel"} /\ pc[1] = "claim"
              /\ NoneOpen(ledger.jobs))
          => (pc'[1] \in {"done", "pool"} /\ ledger' = ledger)
       /\ \A d \in Drivers :
            (pc[d] = "cs_claim" /\ NoneOpen(loc[d].jobs))
                => (pc'[d] = "final" /\ disk' = disk)]_vars

C8_Witness ==
    /\ mode = "cluster" /\ pc[1] = "final"
    /\ Len(disk.L.jobs) = 2
    /\ disk.L.jobs[1] = ERROR

\* C9: without an intervening mark_all_open, no row is returned by two claims.
C9_ClaimedOnce ==
    \A i \in 1..Len(claimed), j \in 1..Len(claimed) :
        i # j => claimed[i] # claimed[j]

C9_Witness ==
    /\ Len(claimed) = 2
    /\ ret.op = "set_error"
    /\ ledger.jobs[claimed[1]] = FINISHED

\* C10: n rows appended to an empty ledger (by a constructor, add or
\* add_numpy_arrays) give a ledger of length n whose rows are all OPEN when
\* no outputs were supplied and all FINISHED when they were.
C10_AppendToEmpty ==
    (ret.op \in {"__init__", "from_dataframe", "add", "add_numpy_arrays"}
        /\ ret.len0 = 0)
    => /\ Length(ledger) = ret.n
       /\ Len(ledger.jobs) = ret.n
       /\ \A i \in 1..Len(ledger.jobs) :
             ledger.jobs[i] = IF ret.given THEN FINISHED ELSE OPEN

C10_Witness ==
    /\ ret.op = "__init__" /\ ret.given
    /\ ret.n = 2
    /\ Length(ledger) = 2

C20_LoadWithoutOutput ==
    [][(ret'.op = "from_file" /\ disk' = disk) =>
          /\ ~disk.exists => ret'.exc = FileNotFoundError
          /\ (disk.exists /\ ~disk.has_output) =>
                /\ ret'.exc = NoException
                /\ \A i \in 1..Length(ledger') :
                      /\ ledger'.output_data[i] = NaN
                      /\ ledger'.jobs[i] = OPEN]_vars

\* C15: in a sequential sweep, when the evaluator raises for a row that row
\* becomes ERROR and the sweep goes on to the next claim; a row whose
\* evaluation returns becomes FINISHED with its output; when the sweep ends no
\* row that was OPEN at the start is left unevaluated.
C15_SequentialFailureContinues ==
    [][/\ (mode = "sequential" /\ pc'[1] = "done") =>
            \A i \in 1..Length(start) :
                start.jobs[i] = OPEN => ledger'.jobs[i] \in {FINISHED, ERROR}
       /\ (mode = "sequential" /\ pc[1] = "run") =>
          LET j == experiment_sample[1].job_number
          IN  /\ pc'[1] = "claim"
              /\ ret'.job = j
              /\ \A i \in 1..Length(ledger) :
                    i # j => /\ ledger'.jobs[i] = ledger.jobs[i]
                             /\ ledger'.output_data[i] = ledger.output_data[i]
              /\ IF ret'.exc = EvaluatorException
                 THEN ledger'.jobs[j] = ERROR
                 ELSE /\ ledger'.jobs[j] = FINISHED
                      /\ ledger'.output_data[j] = Val(ledger.input_data[j])]_vars

C15_Witness ==
    /\ mode = "sequential" /\ pc[1] = "done"
    /\ start.jobs = <<OPEN, OPEN>>
    /\ ledger.jobs = <<ERROR, FINISHED>>

\* C16: in a parallel sweep a failure of the evaluator is handled per row:
\* when the sweep has ended, the rows of the batch whose evaluation returned
\* are FINISHED and the rows whose evaluation raised are ERROR.
C16_ParallelFailurePerRow ==
    (mode = "parallel" /\ pc[1] \in {"done", "raised"}) =>
        \A k \in 1..Len(results) :
            LET j == results[k].sample.job_number
            IN  /\ results[k].state = "ok" => ledger.jobs[j] = FINISHED
                /\ results[k].state = "raise" => ledger.jobs[j] = ERROR

\* C17: the union of two ledgers with equal schemas has len(self) +
\* len(other) rows: the rows of self in order, then the rows of other in
\* order, each with its inputs, outputs and status.
Row(L, i) == <<L.input_data[i], L.output_data[i], L.jobs[i]>>

C17_UnionConcatenates ==
    [][(ret'.op = "__add__" /\ ret'.other # NotExperimentData
            /\ ret'.other.domain = ledger.domain) =>
          LET other == ret'.other
          IN  /\ ret'.exc = NoException
              /\ Len(ledger'.input_data) = Length(ledger) + Length(other)
              /\ Len(ledger'.output_data) = Length(ledger) + Length(other)
              /\ Len(ledger'.jobs) = Length(ledger) + Length(other)
              /\ ledger'.domain = ledger.domain
              /\ \A i \in 1..Length(ledger) : Row(ledger', i) = Row(ledger, i)
              /\ \A i \in 1..Length(other) :
                    Row(ledger', Length(ledger) + i) = Row(other, i)]_vars

C17_Witness ==
    /\ ret.op = "__add__" /\ ret.exc = NoException
    /\ ret.len0 = 2 /\ ret.n = 2
    /\ ledger.jobs = <<ERROR, IN_PROGRESS, FINISHED, FINISHED>>
    /\ ledger.input_data = <<1, 2, 1, 2>>

\* C18: self + other raises ValueError when the schemas differ and TypeError
\* when other is neither a ledger nor a row view; in both cases self is left
\* as it was.
C18_UnionFailures ==
    [][ret'.op = "__add__" =>
          /\ ret'.other = NotExperimentData =>
                (ret'.exc = TypeError /\ ledger' = ledger)
          /\ (ret'.other # NotExperimentData
                  /\ ret'.other.domain # ledger.domain) =>
                (ret'.exc = ValueError /\ ledger' = ledger)]_vars

C18_Witness ==
    /\ ret.op = "__add__" /\ ret.exc = ValueError
    /\ ret.len0 = 2 /\ ret.n = 1
    /\ Length(ledger) = 2

\* C19: remove_rows_bottom(k) with 0 <= k <= len removes the last k rows from
\* the inputs, the outputs and the statuses: len - k rows are left, the first
\* len - k rows of before, unchanged; with k = 0 nothing changes.
C19_RemoveRowsBottom ==
    [][(ret'.op = "remove_rows_bottom" /\ ret'.n <= Length(ledger)) =>
          LET k == ret'.n
          IN  /\ Len(ledger'.input_data) = Length(ledger) - k
              /\ Len(ledger'.output_data) = Length(ledger) - k
              /\ Len(ledger'.jobs) = Length(ledger) - k
              /\ ledger'.domain = ledger.domain
              /\ \A i \in 1..(Length(ledger) - k) :
                    Row(ledger', i) = Row(ledger, i)
              /\ k = 0 => ledger' = ledger]_vars

C19_Witness ==
    /\ ret.op = "remove_rows_bottom" /\ ret.n = 1 /\ ret.len0 = 2
    /\ Length(ledger) = 1
    /\ ledger.jobs[1] = IN_PROGRESS

\* C13: for N >= 0 and P >= 1, _number_of_updates(N, P) is ceil(N / P),
\* _number_of_overiterations(N, P) is P - (N mod P) when N mod P is not 0 and
\* 0 otherwise, so updates * P - overiterations = N; the copies in
\* experimentdata.py and optimizer.py return the same.
Ceil(N, P) == CHOOSE u \in 0..N : u * P >= N /\ (u = 0 \/ (u - 1) * P < N)

Overshoot(N, P) == IF N % P # 0 THEN P - (N % P) ELSE 0

C13_Counting ==
    LET N == optimizer.iterations
        P == optimizer.population
    IN  /\ ret.op \in {"_number_of_updates", "optimizer._number_of_updates"}
            => ret.n = Ceil(N, P)
        /\ ret.op \in {"_number_of_overiterations",
                        "optimizer._number_of_overiterations"}
            => ret.n = Overshoot(N, P)
        /\ mode = "count" =>
              /\ _number_of_updates(N, P) * P
                    - _number_of_overiterations(N, P) = N
              /\ optimizer_number_of_updates(N, P) = _number_of_updates(N, P)
              /\ optimizer_number_of_overiterations(N, P)
                    = _number_of_overiterations(N, P)

C13_Witness ==
    /\ ret.op = "_number_of_overiterations" /\ ret.n = 2
    /\ optimizer.iterations = 10 /\ optimizer.population = 3
    /\ _number_of_updates(10, 3) = 4

C14_ScipyGrowsByN ==
    (mode = "_iterate_scipy" /\ pc[1] = "done") =>
        Length(ledger) = Length(start) + optimizer.iterations

\* C21: set_error(index) on any existing row sets the row's status to ERROR
\* and its output to the sentinel and does not raise; the inputs, and the
\* outputs and statuses of the other rows, are unchanged.
C21_SetError ==
    [][(mode = "rows" /\ ret'.op = "set_error") =>
          /\ ret'.exc = NoException
          /\ ledger'.jobs[ret'.job] = ERROR
          /\ ledger'.output_data[ret'.job] = ErrorSentinel
          /\ ledger'.input_data = ledger.input_data
          /\ ledger'.domain = ledger.domain
          /\ Length(ledger') = Length(ledger)
          /\ \A i \in 1..Length(ledger) :
                i # ret'.job => /\ ledger'.jobs[i] = ledger.jobs[i]
                                /\ ledger'.output_data[i] =
                                       ledger.output_data[i]]_vars

C21_Witness ==
    /\ mode = "rows" /\ ret.op = "set_error" /\ ret.job = 2
    /\ ledger.jobs = <<FINISHED, ERROR>>
    /\ ledger.output_data = <<Val(1), ErrorSentinel>>

\* C22: a commit writes the view's output into the row of the output store
\* and only then marks the row FINISHED: the statuses change only at the
\* mark, when the output of the row is the view's, and a commit whose write
\* raised leaves the statuses as they were.
C22_CommitWritesThenMarks ==
    [][mode = "rows" /\ ret'.op = "set_experiment_sample" =>
          /\ ledger'.jobs # ledger.jobs =>
                /\ pc[1] = "mark_as_finished"
                /\ ledger.output_data[experiment_sample[1].job_number] =
                       experiment_sample[1].output
          /\ pc'[1] = "raised" => ledger'.jobs = start'.jobs
          /\ (pc[1] = "mark_as_finished" /\ pc'[1] = "idle") =>
                ledger' = set_experiment_sample(start, experiment_sample[1])]_vars

C22_Witness ==
    /\ mode = "rows" /\ ret.op = "set_experiment_sample" /\ ret.n = 1
    /\ pc[1] = "idle"
    /\ start.jobs = <<IN_PROGRESS>>
    /\ ledger.jobs = <<FINISHED>>
    /\ ledger.output_data = <<Val(2)>>

\* C23: is_all_finished() on a ledger returns true exactly when no row of
\* that ledger is OPEN or IN_PROGRESS, and false otherwise.
NoRowPending(jobs) ==
    \A i \in 1..Len(jobs) : jobs[i] \notin {OPEN, IN_PROGRESS}

C23_IsAllFinished ==
    ret.op = "is_all_finished" =>
        /\ ret.exc = NoException
        /\ ret.given <=> NoRowPending(ledger.jobs)

\* C23 as amended: is_all_finished() answers for the persisted ledger, which
\* it loads under the file lock: it returns true exactly when no row of the
\* files is OPEN or IN_PROGRESS, whatever the ledger in memory holds, leaves
\* the ledger in memory alone, and raises FileNotFoundError when the files
\* are not there.
C23_IsAllFinishedPersisted ==
    [][(ret'.op = "is_all_finished" /\ ret.op # "is_all_finished") =>
          /\ ledger' = ledger
          /\ IF disk.exists
             THEN /\ ret'.exc = NoException
                  /\ ret'.given <=> NoRowPending(disk.L.jobs)
                  /\ disk'.L.jobs = disk.L.jobs
             ELSE /\ ret'.exc = FileNotFoundError
                  /\ disk' = disk]_vars

C23_Witness ==
    /\ ret.op = "is_all_finished" /\ ret.exc = NoException /\ ret.given
    /\ disk.L.jobs = <<FINISHED, ERROR>>
    /\ ledger.jobs = <<FINISHED, ERROR>>

\* C24: for every value of a registered type, loading the path written by
\* save_object without naming a strategy uses the strategy save_object chose
\* and returns a value equal to the saved one.
Unnamed(store_method) == store_method \in {None, "default"}

C24_RoundTrip ==
    [][(/\ ret.op = "save_object" /\ Unnamed(ret.store_method)
        /\ ret.object.type \in DOMAIN STORE_TYPE_MAPPING
        /\ ret'.op = "load_object" /\ Unnamed(ret'.store_method)
        /\ ret'.path = ret.suffix) =>
          /\ ret'.exc = NoException
          /\ ret'.value = ret.object]_vars

\* C25: save_object always writes the object and returns the suffix of the
\* strategy it used: the given store_method, else the strategy registered
\* for the type of the value, else the pickle strategy; it does not raise.
StrategyOfSave(object, store_method) ==
    IF ~Unnamed(store_method) THEN store_method
    ELSE IF object.type \in DOMAIN STORE_TYPE_MAPPING
    THEN STORE_TYPE_MAPPING[object.type]
    ELSE PickleStore

C25_SaveWritesAndReturnsSuffix ==
    [][ret'.op = "save_object" =>
          LET used == StrategyOfSave(ret'.object, ret'.store_method)
          IN  /\ ret'.exc = NoException
              /\ ret'.suffix = suffix(used)
              /\ disk'[suffix(used)] = ret'.object]_vars

\* C26: load_object uses the given strategy when the caller specifies one;
\* when the caller specifies none it infers the strategy from the extension
\* of the path, and falls back to the pickle strategy when no extension
\* matches.
StrategyOfLoad(path, store_method) ==
    IF ~Unnamed(store_method) THEN store_method
    ELSE IF \E store_type \in Stores \ {PickleStore} :
                suffix(store_type) = path
    THEN CHOOSE store_type \in Stores \ {PickleStore} :
             suffix(store_type) = path
    ELSE PickleStore

C26_LoadStrategy ==
    [][ret'.op = "load_object" =>
          LET r == Store_load(StrategyOfLoad(ret'.path, ret'.store_method),
                              disk)
          IN  \/ ret'.exc = r.exc /\ ret'.value = r.value
              \/ /\ Unnamed(ret'.store_method) /\ disk[ret'.path] = NoFile
                 /\ ret'.exc = NoException /\ ret'.value = NoneObject]_vars

\* C27: add(data) fails with TypeError whenever data is not one of the
\* recognized tabular or array representations.
C27_AddTypeError ==
    [][(ret'.op = "add" /\ ret'.type \notin RecognizedTypes) =>
          ret'.exc = TypeError /\ ledger' = ledger]_vars

\* C28: when the ledger holds fewer rows than the optimizer's population, an
\* iteration (_iterate, _iterate_scipy, Optimizer.iterate) fails with
\* ValueError before any row is appended, claimed or evaluated: the ledger is
\* as it was before the call. With enough rows the check does not raise.
C28_TooFewDatapoints ==
    (mode \in Controllers /\ pc[1] # "check") =>
        IF Length(start) < optimizer.population
        THEN /\ pc[1] = "raised"
             /\ ret.exc = ValueError
             /\ ledger = start
        ELSE pc[1] # "raised" /\ ret.exc = NoException

C28_Witness ==
    /\ mode = "_iterate" /\ pc[1] = "raised" /\ ret.exc = ValueError
    /\ Length(start) = 2 /\ optimizer.population = 3
    /\ optimizer.iterations = 4
    /\ start.jobs = <<OPEN, FINISHED>>
    /\ ledger = start

\* C29: every read and every write of the persisted ledger files by a cluster
\* driver during _run_cluster, the initial load or store and the final reload
\* included, happens while that driver holds the file lock.
TouchesFiles(d) ==
    \/ pc[d] \in {"start", "store", "final"} /\ pc'[d] # pc[d]
    \/ pc[d] \in {"cs_claim", "cs_commit", "cs_fail"} /\ pc'[d] # pc[d]
    \/ pc[d] \in {"loop", "run"} /\ loc'[d] # loc[d]

C29_FilesUnderLock ==
    [][\A d \in Drivers :
          (mode = "cluster" /\ TouchesFiles(d)) =>
              (lockOwner = d \/ lockOwner' = d)]_vars

\* C30: the start-up store of a cluster driver never overwrites what another
\* driver has persisted: a row persisted as IN_PROGRESS, FINISHED or ERROR is
\* not reset to OPEN, and its output is kept.
C30_StartupStoreKeepsRows ==
    [][\A d \in Drivers :
          (mode = "cluster" /\ pc[d] = "store" /\ pc'[d] = "loop"
           /\ disk.exists) =>
              \A i \in 1..Len(disk.L.jobs) :
                  disk.L.jobs[i] # OPEN =>
                      /\ disk'.L.jobs[i] = disk.L.jobs[i]
                      /\ disk'.L.output_data[i] = disk.L.output_data[i]]_vars

\* C31: the removal of the lock file by a cluster driver that has finished
\* never lets two other drivers be inside the critical section together, and
\* no commit or failure persisted by one driver is lost by the write-back of
\* another.
InCriticalSection(d) == pc[d] \in {"cs_claim", "cs_commit", "cs_fail"}

C31_UnlinkKeepsExclusion ==
    [][mode = "cluster" =>
          /\ \A d \in Drivers, e \in Drivers :
                (d # e /\ InCriticalSection(d)') => ~InCriticalSection(e)'
          /\ \A d \in Drivers :
                (InCriticalSection(d) /\ pc'[d] # pc[d]) =>
                    \A i \in 1..Len(disk.L.jobs) :
                        disk.L.jobs[i] \in {FINISHED, ERROR} =>
                            disk'.L.jobs[i] = disk.L.jobs[i]]_vars

\* C32: the row claimed by a cluster driver that crashed before committing or
\* failing it stays IN_PROGRESS in the persisted ledger: no step of another
\* driver gives it another status.
Crashed(d) == pc[d] = "crashed"

C32_StrandedRowStays ==
    [][\A d \in Drivers :
          Crashed(d) =>
              /\ experiment_sample[d].job_number <= Len(disk'.L.jobs)
              /\ disk'.L.jobs[experiment_sample[d].job_number] = IN_PROGRESS]_vars

\* C33: in a parallel sweep every claim comes before the first evaluation and
\* every commit after the last one: a claim is made while nothing of the batch
\* has been evaluated, an evaluation is made when no row is OPEN any more and
\* the batch is the set of rows OPEN at the start, and a commit is made only
\* when every view of the batch has come back from its evaluation.
OpenAtStart == {i \in 1..Length(start) : start.jobs[i] = OPEN}

Batch == {options[k].job_number : k \in 1..Len(options)}

C33_ParallelPhases ==
    [][mode = "parallel" =>
          /\ (pc[1] = "claim" /\ ledger' # ledger) =>
                \A k \in 1..Len(results') : results'[k].state = "pending"
          /\ (pc[1] = "pool" /\ results' # results) =>
                /\ \A i \in 1..Length(ledger) : ledger.jobs[i] # OPEN
                /\ Batch = OpenAtStart
                /\ ledger' = ledger
          /\ (pc[1] = "pool" /\ pc'[1] = "commit") =>
                {results[k].sample.job_number : k \in 1..Len(results)}
                    = OpenAtStart
          /\ (pc[1] = "commit" /\ ledger' # ledger) =>
                \A k \in 1..Len(results) : results[k].state = "ok"]_vars

C33_Witness ==
    /\ mode = "parallel" /\ pc[1] = "done"
    /\ Cardinality(OpenAtStart) = 2
    /\ \A i \in OpenAtStart : ledger.jobs[i] = FINISHED

\* C34: in every round of _iterate the optimizer is given the ledger only
\* after the sweep of that round: at set_data no row is OPEN or IN_PROGRESS;
\* rows are removed from the bottom only after the last round, in the step
\* that ends the controller.
SetDataCalled == mode = "_iterate" /\ optimizer'.updates < optimizer.updates

TruncatesAfterLastRound ==
    (mode = "_iterate" /\ Length(ledger') < Length(ledger)) =>
        (optimizer.updates = 0 /\ pc'[1] = "done")

C34_SetDataAfterEvaluation ==
    [][/\ SetDataCalled =>
             \A i \in 1..Length(ledger') :
                 ledger'.jobs[i] \notin {OPEN, IN_PROGRESS}
       /\ TruncatesAfterLastRound]_vars

\* C34, amended: at set_data no row is OPEN and every row appended in the
\* round is FINISHED or ERROR; the rows IN_PROGRESS are the rows that were
\* IN_PROGRESS when _iterate was called, which no sweep claims.
C34_SetDataAfterSweep ==
    [][/\ SetDataCalled =>
             /\ Length(ledger') = Length(ledger) + optimizer.population
             /\ \A i \in 1..Length(ledger') :
                   /\ ledger'.jobs[i] # OPEN
                   /\ i > Length(ledger) =>
                         ledger'.jobs[i] \in {FINISHED, ERROR}
                   /\ ledger'.jobs[i] = IN_PROGRESS =>
                         (i <= Length(start) /\ start.jobs[i] = IN_PROGRESS)
       /\ TruncatesAfterLastRound]_vars

C34_Witness ==
    /\ mode = "_iterate" /\ pc[1] = "update" /\ optimizer.updates = 0
    /\ Length(ledger) >= Length(start) + 2 * optimizer.population
    /\ \E i \in 1..Length(start) : start.jobs[i] = OPEN
    /\ \E i \in 1..Length(ledger) : ledger.jobs[i] = IN_PROGRESS

\* C35: a sequential sweep ends, having called the evaluator once for each
\* row that was OPEN at the start and for no other row, in increasing order
\* of the rows: when the evaluator is called for a row, the rows OPEN at the
\* start below it are settled and those above it are still OPEN, and when
\* the sweep has stopped on NoOpenJobsError all of them are settled.
EvaluatorCalled == mode = "sequential" /\ pc[1] = "run" /\ pc'[1] # "run"

SettledFromStart(rows) ==
    \A i \in rows : ledger.jobs[i] \in {FINISHED, ERROR}

C35_SequentialSweep ==
    /\ [][EvaluatorCalled =>
             LET j == experiment_sample[1].job_number
             IN  /\ j \in OpenAtStart
                 /\ ledger.jobs[j] = IN_PROGRESS
                 /\ ret'.job = j
                 /\ SettledFromStart({i \in OpenAtStart : i < j})
                 /\ \A i \in OpenAtStart : i > j => ledger.jobs[i] = OPEN]_vars
    /\ []((mode = "sequential" /\ pc[1] = "done") =>
             SettledFromStart(OpenAtStart))
    /\ <>(pc[1] = "done")

C35_Witness ==
    /\ mode = "sequential" /\ pc[1] = "done"
    /\ Cardinality(OpenAtStart) = 2
    /\ ret.op = "data_generator.run" /\ ret.job = 2
    /\ SettledFromStart(OpenAtStart)

\* C36: a driver that has left a lock-wrapped operation, by return or by
\* NoOpenJobsError, does not hold the lock; with live drivers and fair
\* acquisition a driver that waits for the lock gets into the operation, and
\* every driver's sweep comes to its end.
WaitsForLock(d) == mode = "cluster" /\ pc[d] \in {"loop", "run"}

C36_LockReleased ==
    /\ [](\A d \in Drivers : lockOwner = d => InCriticalSection(d))
    /\ \A d \in Drivers : WaitsForLock(d) ~> InCriticalSection(d)
    /\ <>(\A d \in Drivers : pc[d] \in {"done", "idle"})

C36_Witness ==
    /\ mode = "cluster"
    /\ pc[1] = "final" /\ InCriticalSection(2) /\ lockOwner = 2
    /\ WaitsForLock(3)
    /\ Length(disk.L) = 2

\* C37: a cluster run leaves the ledger it was called on as it was: inputs,
\* outputs and statuses in memory are those of the start, whatever has been
\* claimed, committed or failed in the files.
C37_ClusterKeepsMemory == mode = "cluster" => ledger = start

C37_Witness ==
    /\ mode = "cluster"
    /\ \A d \in Drivers : pc[d] \in {"done", "idle"}
    /\ \E i \in 1..Length(ledger) :
          /\ ledger.jobs[i] = OPEN
          /\ disk.L.jobs[i] = FINISHED
    /\ \E i \in 1..Length(ledger) :
          /\ ledger.jobs[i] = OPEN
          /\ disk.L.jobs[i] = ERROR

\* C38: a sequential or parallel sweep changes only rows that were OPEN when
\* it started: at every point of the sweep the ledger has the rows and the
\* inputs of the start, and a row that was not OPEN at the start has the
\* status and the output of the start.
InMemorySweep == mode \in {"sequential", "parallel"}

C38_SweepFrame ==
    InMemorySweep =>
        /\ Length(ledger) = Length(start)
        /\ Len(ledger.jobs) = Len(start.jobs)
        /\ Len(ledger.output_data) = Len(start.output_data)
        /\ ledger.input_data = start.input_data
        /\ ledger.domain = start.domain
        /\ \A i \in 1..Length(start) :
              start.jobs[i] # OPEN =>
                  /\ ledger.jobs[i] = start.jobs[i]
                  /\ ledger.output_data[i] = start.output_data[i]

C38_Witness ==
    /\ InMemorySweep /\ pc[1] = "done"
    /\ \E i \in 1..Length(start) :
          start.jobs[i] = OPEN /\ ledger.jobs[i] \in {FINISHED, ERROR}
    /\ \E i \in 1..Length(start) :
          start.jobs[i] \in {IN_PROGRESS, FINISHED, ERROR}

\* C39: a ledger constructed with the path of a _jobs file has the statuses
\* that file holds.
C39_JobsFromFile ==
    (mode = "construct" /\ ret.op = "__init__") => ledger.jobs = disk.L.jobs

====
